---- MODULE Spec2Model ----
(***************************************************************************)
(* Model of the star_track and pointer modules of stellarium-web-engine    *)
(* (src/modules/star_track.c, src/modules/pointer.c).                      *)
(*                                                                         *)
(* Numbers.  The C code computes in doubles; the model computes in exact   *)
(* fixed point.  Times and clock hours are counted in clock units, with    *)
(* SubTicks units per sampling interval (24h / PATH_POINTS), so one day is *)
(* UnitsPerDay units and one hour UnitsPerHour units.  Angles are counted  *)
(* in the same unit (UnitsPerDay units per turn), screen positions in      *)
(* pixels.                                                                 *)
(***************************************************************************)
EXTENDS Integers, Sequences, FiniteSets, TLC

\* ---------------------------------------------------------------------------
\* Program constants and the bounds of the model
\* ---------------------------------------------------------------------------

PATH_POINTS == 144
HOURS_PER_DAY == 24

\* clock units per sampling interval (resolution of the modelled clock)
SubTicks == 10
\* TT - UTC of the observer, in clock units
TtMinusUtc == 1

UnitsPerDay == PATH_POINTS * SubTicks
UnitsPerHour == UnitsPerDay \div HOURS_PER_DAY
Turn == UnitsPerDay
HalfTurn == Turn \div 2
QuarterTurn == Turn \div 4

NoSel == "null"
Objects == {"star", "comet"}
\* a return value is <<r>>; before the call there is none
NotCalled == <<>>
Uninit == <<>>
\* the content of a window position local before its first write
UninitWin == <<0, 0>>

\* the instants the host sets the observer's clock to (utc, clock units)
UtcValues ==
    {0, 10 * UnitsPerHour, HalfTurn, HalfTurn + SubTicks \div 2,
     UnitsPerDay + HalfTurn + SubTicks \div 2}

\* the viewports and views the host can set
WinSizes == {<<400, 300>>}
Views == {[kind |-> "perspective", yaw |-> 0],
          [kind |-> "perspective", yaw |-> HalfTurn],
          [kind |-> "cylindrical", yaw |-> 0]}

\* what an unwritten pvo buffer can hold: the previous call's vector left on
\* the stack, or some other bit pattern
GarbageChoices == {"residue", "arbitrary"}
ArbitraryDir == <<QuarterTurn, 0>>
MarkerGarbage == {ArbitraryDir, <<0, 0>>}

\* ---------------------------------------------------------------------------
\* External collaborators: observer, ephemeris, frames, projection
\* ---------------------------------------------------------------------------

Observer(utc) == [utc |-> utc, tt |-> utc + TtMinusUtc]

Tri(x) == IF x % Turn < HalfTurn THEN (x % Turn) - QuarterTurn
          ELSE 3 * QuarterTurn - (x % Turn)

Signed(x) == IF x % Turn > HalfTurn THEN (x % Turn) - Turn ELSE x % Turn

Sidereal(tt) == (tt + 4 * (tt \div UnitsPerDay)) % Turn

\* obj_get_pvo: the object's ICRF direction <<ra, dec>> at obs.tt, or failure
\* (the comet has no position during one sampling interval of each day)
EphemDefined(o, tt) ==
    ~(o = "comet" /\ tt % UnitsPerDay >= 10 * UnitsPerHour
                  /\ tt % UnitsPerDay < 10 * UnitsPerHour + SubTicks)

EphemDir(o, tt) ==
    IF o = "star" THEN <<0, 100>>
    ELSE <<(Turn \div 3 + tt \div 8) % Turn, -50>>

obj_get_pvo(o, obs) ==
    [ok |-> EphemDefined(o, obs.tt), pvo |-> EphemDir(o, obs.tt)]

\* convert_frame between ICRF and the observed (horizontal) frame
IcrfToObserved(obs, d) ==
    LET az == (d[1] + Sidereal(obs.tt)) % Turn
    IN  <<az, d[2] + Tri(az) \div 4>>

ObservedToIcrf(obs, p) ==
    <<(p[1] - Sidereal(obs.tt)) % Turn, p[2] - Tri(p[1]) \div 4>>

\* convert_frame from ICRF to the view frame: <<bearing from the view axis, alt>>
IcrfToView(obs, view, d) ==
    LET p == IcrfToObserved(obs, d)
    IN  <<Signed(p[1] - view.yaw), p[2]>>

\* project_to_win: fails for a point behind the viewer (perspective); the
\* output is written only on success
project_to_win(view, win_size, v) ==
    [ok  |-> (view.kind = "cylindrical") \/ (v[1] > -QuarterTurn /\ v[1] < QuarterTurn),
     win |-> <<win_size[1] \div 2 + v[1], win_size[2] \div 2 - v[2]>>]

\* ---------------------------------------------------------------------------
\* star_track.c
\* ---------------------------------------------------------------------------

\* compute_azalt_at_time; stack is what the pvo buffer holds before the call
compute_azalt_at_time(sel, obs_base, hours_offset, stack, g) ==
    LET o   == [obs_base EXCEPT !.tt = obs_base.tt + hours_offset]
        r   == obj_get_pvo(sel, o)
        pvo == IF r.ok THEN r.pvo
               ELSE IF g = "residue" /\ stack # Uninit THEN stack
               ELSE ArbitraryDir
        pos_observed == IcrfToObserved(o, pvo)
    IN  [obj |-> sel, tt |-> o.tt, hours_offset |-> hours_offset,
         ok |-> r.ok, pvo |-> pvo,
         az |-> pos_observed[1], alt |-> pos_observed[2]]

clock_hour(i) == i * ((HOURS_PER_DAY * UnitsPerHour) \div PATH_POINTS)

\* faulty variant: the current hour taken from the observer's tt instead of its utc
current_hour_tt(obs) == ((obs.tt % UnitsPerDay) * HOURS_PER_DAY * UnitsPerHour) \div UnitsPerDay

\* fmod(obs->utc, 1.0) * 24.0
current_hour(obs) ==
    ((obs.utc % UnitsPerDay) * HOURS_PER_DAY * UnitsPerHour) \div UnitsPerDay

\* what the pvo buffer of compute_azalt_at_time holds when call i of a refresh
\* starts: what call i - 1 left in the same stack slot
RECURSIVE StackBefore(_, _, _, _)
StackBefore(i, sel, o, g) ==
    IF i = 0 THEN Uninit
    ELSE LET t == o.tt + clock_hour(i - 1) - current_hour(o)
         IN  IF EphemDefined(sel, t) THEN EphemDir(sel, t)
             ELSE IF g = "residue" /\ StackBefore(i - 1, sel, o, g) # Uninit
                  THEN StackBefore(i - 1, sel, o, g)
             ELSE ArbitraryDir

\* the PATH_POINTS calls of compute_azalt_at_time made by the loop of one
\* update_path_cache, in order
SamplerCalls(sel, o, g) ==
    [k \in 1..PATH_POINTS |->
        compute_azalt_at_time(sel, o, clock_hour(k - 1) - current_hour(o),
                              StackBefore(k - 1, sel, o, g), g)]

\* the head of update_path_cache: storage for PATH_POINTS samples, zeroed by
\* calloc, unless the cache already has that size
Reallocate(c) ==
    IF c.nb_points # PATH_POINTS
    THEN [nb_points  |-> PATH_POINTS,
          path_azalt |-> [k \in 1..PATH_POINTS |-> <<0, 0>>],
          hours      |-> [k \in 1..PATH_POINTS |-> 0]]
    ELSE c

\* faulty variant: the hour stored with a sample is its offset from now, not its anchor
update_path_cache_relative(c, calls) ==
    LET c1 == Reallocate(c)
    IN  [nb_points  |-> c1.nb_points,
         path_azalt |-> [k \in DOMAIN c1.path_azalt |->
                           IF k <= PATH_POINTS
                           THEN <<calls[k].az, calls[k].alt>>
                           ELSE c1.path_azalt[k]],
         hours      |-> [k \in DOMAIN c1.hours |->
                           IF k <= PATH_POINTS THEN calls[k].hours_offset
                           ELSE c1.hours[k]]]

\* faulty variant: the samples are computed only when the storage is (re)allocated
update_path_cache_patch(c, calls) ==
    IF c.nb_points = PATH_POINTS THEN c
    ELSE [nb_points  |-> PATH_POINTS,
          path_azalt |-> [k \in 1..PATH_POINTS |-> <<calls[k].az, calls[k].alt>>],
          hours      |-> [k \in 1..PATH_POINTS |-> clock_hour(k - 1)]]

\* update_path_cache, calls being the results of its compute_azalt_at_time
\* calls; C index i is sequence index i + 1
update_path_cache(c, calls) ==
    LET c1 == Reallocate(c)
    IN  [nb_points  |-> c1.nb_points,
         path_azalt |-> [k \in DOMAIN c1.path_azalt |->
                           IF k <= PATH_POINTS
                           THEN <<calls[k].az, calls[k].alt>>
                           ELSE c1.path_azalt[k]],
         hours      |-> [k \in DOMAIN c1.hours |->
                           IF k <= PATH_POINTS THEN clock_hour(k - 1)
                           ELSE c1.hours[k]]]

\* azalt_to_view: observed -> ICRF -> view
azalt_to_view(obs, view, az, alt) ==
    IcrfToView(obs, view, ObservedToIcrf(obs, <<az, alt>>))

Dist2(p, q) == (q[1] - p[1]) * (q[1] - p[1]) + (q[2] - p[2]) * (q[2] - p[2])

\* faulty variant: dy used for both axes
TooFarApart_dy(p1_win, p2_win, win_size) ==
    4 * ((p2_win[2] - p1_win[2]) * (p2_win[2] - p1_win[2]) +
         (p2_win[2] - p1_win[2]) * (p2_win[2] - p1_win[2]))
        > win_size[1] * win_size[1]

\* the wraparound test of the segment loop
TooFarApart(p1_win, p2_win, win_size) ==
    4 * Dist2(p1_win, p2_win) > win_size[1] * win_size[1]

\* faulty variant: the result of the second projection is not tested
SegmentDrawn_unchecked(ok1, ok2, p1_win, p2_win, win_size) ==
    ok1 /\ ~TooFarApart(p1_win, p2_win, win_size)

\* the three tests of one iteration of the path loop: both projections
\* succeeded and the segment does not wrap
SegmentDrawn(ok1, ok2, p1_win, p2_win, win_size) ==
    ok1 /\ ok2 /\ ~TooFarApart(p1_win, p2_win, win_size)

\* the two projections of iteration i of the path loop
SegProj(i, c, o, v, ws) ==
    LET next == (i + 1) % c.nb_points
        a1   == c.path_azalt[i + 1]
        a2   == c.path_azalt[next + 1]
    IN  [r1 |-> project_to_win(v, ws, azalt_to_view(o, v, a1[1], a1[2])),
         r2 |-> project_to_win(v, ws, azalt_to_view(o, v, a2[1], a2[2]))]

\* the locals p1_win and p2_win of star_track_render after the projections of
\* iteration i: a failed projection leaves them as the latest earlier
\* iteration wrote them (the second projection runs only after the first
\* succeeded)
SegLocals(i, c, o, v, ws) ==
    LET pr == SegProj(i, c, o, v, ws)
        W1 == {j \in 0..(i - 1) : SegProj(j, c, o, v, ws).r1.ok}
        W2 == {j \in 0..(i - 1) : SegProj(j, c, o, v, ws).r1.ok /\
                                  SegProj(j, c, o, v, ws).r2.ok}
        Last(S) == CHOOSE j \in S : \A k \in S : k <= j
    IN  [p1_win |-> IF pr.r1.ok THEN pr.r1.win
                    ELSE IF W1 = {} THEN UninitWin
                    ELSE SegProj(Last(W1), c, o, v, ws).r1.win,
         p2_win |-> IF pr.r1.ok /\ pr.r2.ok THEN pr.r2.win
                    ELSE IF W2 = {} THEN UninitWin
                    ELSE SegProj(Last(W2), c, o, v, ws).r2.win]

\* the path loop: the paint_2d_line calls, in order
SegmentLoop(c, o, v, ws) ==
    LET Drawn(i) ==
            LET pr == SegProj(i, c, o, v, ws)
                l  == SegLocals(i, c, o, v, ws)
            IN  SegmentDrawn(pr.r1.ok, pr.r2.ok, l.p1_win, l.p2_win, ws)
        idx == SelectSeq([k \in 1..c.nb_points |-> k - 1], Drawn)
    IN  [k \in 1..Len(idx) |->
            LET i    == idx[k]
                next == (i + 1) % c.nb_points
                l    == SegLocals(i, c, o, v, ws)
            IN  [i |-> i, next |-> next, p1 |-> l.p1_win, p2 |-> l.p2_win,
                 above |-> (c.path_azalt[i + 1][2] > 0 \/
                            c.path_azalt[next + 1][2] > 0)]]

\* faulty variant: the hour mark window is 0.2 hour wide on each side
is_hour_wide(hour) ==
    LET hour_frac == hour % UnitsPerHour
    IN  10 * hour_frac < 2 * UnitsPerHour \/ 10 * hour_frac > 8 * UnitsPerHour

\* hour_frac < 0.1 || hour_frac > 0.9
is_hour(hour) ==
    LET hour_frac == hour % UnitsPerHour
    IN  10 * hour_frac < UnitsPerHour \/ 10 * hour_frac > 9 * UnitsPerHour

rounded_hour(hour) == ((2 * hour + UnitsPerHour) \div (2 * UnitsPerHour)) % 24

OffWindow(win_pos, win_size) ==
    win_pos[1] < 0 \/ win_pos[1] > win_size[1] \/
    win_pos[2] < 0 \/ win_pos[2] > win_size[2]

\* the tests of one iteration of the dot loop
DotDrawn(hour, ok, win_pos, win_size) ==
    is_hour(hour) /\ ok /\ ~OffWindow(win_pos, win_size)

\* the projection of iteration i of the dot loop
DotProj(i, c, o, v, ws) ==
    project_to_win(v, ws, azalt_to_view(o, v, c.path_azalt[i + 1][1],
                                        c.path_azalt[i + 1][2]))

\* the dot and label loop: one record per draw_dot call, in order, labels
\* holding the hour of the draw_time_label call made with it, if any
HourLoop(c, o, v, ws) ==
    LET Drawn(i) == DotDrawn(c.hours[i + 1], DotProj(i, c, o, v, ws).ok,
                             DotProj(i, c, o, v, ws).win, ws)
        idx == SelectSeq([k \in 1..c.nb_points |-> k - 1], Drawn)
    IN  [k \in 1..Len(idx) |->
            LET i == idx[k]
            IN  [i |-> i, pos |-> DotProj(i, c, o, v, ws).win,
                 above |-> c.path_azalt[i + 1][2] > 0,
                 labels |-> IF rounded_hour(c.hours[i + 1]) % 2 = 0
                            THEN {rounded_hour(c.hours[i + 1])} ELSE {}]]

MarkerDrawn(ok) == ok

\* the current position marker; gm is what pvo holds if obj_get_pvo fails
CurrentMarker(selection, obs, view, win_size, gm) ==
    LET r   == obj_get_pvo(selection, obs)
        pvo == IF r.ok THEN r.pvo ELSE gm
        p   == project_to_win(view, win_size, IcrfToView(obs, view, pvo))
    IN  [drawn |-> MarkerDrawn(p.ok), proj_ok |-> p.ok, eph_ok |-> r.ok,
         pos |-> IF p.ok THEN p.win ELSE UninitWin]

NoDraw == [segs |-> <<>>, dots |-> <<>>,
           marker |-> [drawn |-> FALSE, proj_ok |-> FALSE, eph_ok |-> FALSE,
                       pos |-> UninitWin]]

\* ---------------------------------------------------------------------------
\* State
\* ---------------------------------------------------------------------------

VARIABLES
    selection,      \* core->selection
    obs,            \* core->observer
    view,           \* the painter's projection
    win_size,       \* core->win_size
    gyroscope_mode, \* core->gyroscope_mode
    alive,          \* the star_track module exists
    visible,        \* track->visible
    cache,          \* track->cache
    ptr_visible,    \* pointer->visible
    st_ret,         \* star_track_render's return value in this frame
    st_draw,        \* star_track_render's paint calls in this frame
    sampler_log,    \* compute_azalt_at_time calls in this frame
    last_refresh,   \* the (selection, utc) of the latest update_path_cache
    pt_ret,         \* pointer_render's return value in this frame
    pt_draw         \* pointer_render's paint calls in this frame

vars == <<selection, obs, view, win_size, gyroscope_mode, alive, visible,
          cache, ptr_visible, st_ret, st_draw, sampler_log, last_refresh,
          pt_ret, pt_draw>>

NoPointer == [kind |-> "none"]

\* star_track_init, pointer_init
Init ==
    /\ selection = NoSel
    /\ obs = Observer(0)
    /\ view \in Views
    /\ win_size \in WinSizes
    /\ gyroscope_mode = FALSE
    /\ alive = TRUE
    /\ visible = FALSE
    /\ cache = [nb_points |-> 0, path_azalt |-> <<>>, hours |-> <<>>]
    /\ ptr_visible = TRUE
    /\ st_ret = NotCalled
    /\ st_draw = NoDraw
    /\ sampler_log = <<>>
    /\ last_refresh = <<>>
    /\ pt_ret = NotCalled
    /\ pt_draw = NoPointer

\* a new frame starts: nothing has been rendered in it yet
BeginFrame ==
    /\ alive
    /\ st_ret' = NotCalled
    /\ st_draw' = NoDraw
    /\ sampler_log' = <<>>
    /\ pt_ret' = NotCalled
    /\ pt_draw' = NoPointer

\* ---------------------------------------------------------------------------
\* pointer.c
\* ---------------------------------------------------------------------------

\* the two early returns of pointer_render
PointerSkipped(vis, sel) == ~vis \/ sel = NoSel

\* the margin of pointer_render's gyroscope branch
margin == 50

\* faulty variant: the box is open on its lower sides
is_on_screen_open(x, y, w, h, m) ==
    x > m /\ x <= w - m /\ y > m /\ y <= h - m

is_on_screen(x, y, w, h, m) ==
    x >= m /\ x <= w - m /\ y >= m /\ y <= h - m

\* selection->klass->render_pointer is set
HasRenderPointer(o) == o = "comet"

\* obj_get_2d_ellipse: the screen positions and radii it can report
Ellipses(ws) ==
    {[win_pos |-> p, win_size |-> <<5, 5>>] :
        p \in {<<margin, margin>>, <<ws[1] - margin, ws[2] - margin>>,
               <<margin - 1, margin>>, <<margin - 1, ws[2] \div 2>>,
               <<ws[1] \div 2, ws[2] \div 2>>,
               <<ws[1] - margin + 1, ws[2] - margin>>,
               <<margin, ws[2] - margin + 1>>,
               <<ws[1] \div 2, margin - 1>>, <<ws[1] \div 2, -100>>,
               <<ws[1] \div 2, ws[2] + 100>>, <<ws[1] + 100, ws[2] \div 2>>}}

Max(a, b) == IF a >= b THEN a ELSE b

\* atan2(y, x) in eighths of a turn (pi/4): [lo, hi] with lo = hi for an exact
\* multiple of pi/4, and hi = lo + 1 for an angle strictly between the two
RECURSIVE atan2(_, _)
atan2(y, x) ==
    IF y < 0 THEN [lo |-> -(atan2(-y, x).hi), hi |-> -(atan2(-y, x).lo)]
    ELSE IF y = 0 THEN (IF x >= 0 THEN [lo |-> 0, hi |-> 0]
                        ELSE [lo |-> 4, hi |-> 4])
    ELSE IF x > 0 THEN (IF y < x THEN [lo |-> 0, hi |-> 1]
                        ELSE IF y = x THEN [lo |-> 1, hi |-> 1]
                        ELSE [lo |-> 1, hi |-> 2])
    ELSE IF x = 0 THEN [lo |-> 2, hi |-> 2]
    ELSE IF y > -x THEN [lo |-> 2, hi |-> 3]
    ELSE IF y = -x THEN [lo |-> 3, hi |-> 3]
    ELSE [lo |-> 3, hi |-> 4]

\* faulty variant: dy is not negated, the angle is measured from "down"
dir_angle_from_down(dx, dy) == atan2(dx, dy)

\* the direction angle from the screen centre to the selection
dir_angle(dx, dy) == atan2(dx, -dy)

\* faulty variant: a selection with a custom render_pointer uses it in
\* gyroscope mode too
pointer_draw_custom_first(sel, gyro, ws, e, skip_top_bar) ==
    IF HasRenderPointer(sel) THEN [kind |-> "custom", win_pos |-> e.win_pos]
    ELSE IF gyro THEN
        LET center_x == ws[1] \div 2
            center_y == ws[2] \div 2
        IN  IF ~is_on_screen(e.win_pos[1], e.win_pos[2], ws[1], ws[2], margin)
            THEN [kind |-> "arrow", win_pos |-> e.win_pos,
                  center |-> <<center_x, center_y>>,
                  atan2_args |-> <<e.win_pos[1] - center_x,
                                   -(e.win_pos[2] - center_y)>>,
                  angle |-> dir_angle(e.win_pos[1] - center_x,
                                      e.win_pos[2] - center_y)]
            ELSE [kind |-> "highlight", win_pos |-> e.win_pos,
                  indicator_r |-> Max(Max(e.win_size[1], e.win_size[2]) + 20, 30)]
    ELSE [kind |-> "strokes", win_pos |-> e.win_pos,
          strokes |-> IF skip_top_bar THEN {0, 1, 2} ELSE {0, 1, 2, 3}]

\* the body of pointer_render after its two early returns
pointer_draw(sel, gyro, ws, e, skip_top_bar) ==
    IF gyro THEN
        LET center_x == ws[1] \div 2
            center_y == ws[2] \div 2
        IN  IF ~is_on_screen(e.win_pos[1], e.win_pos[2], ws[1], ws[2], margin)
            THEN [kind |-> "arrow", win_pos |-> e.win_pos,
                  center |-> <<center_x, center_y>>,
                  atan2_args |-> <<e.win_pos[1] - center_x,
                                   -(e.win_pos[2] - center_y)>>,
                  angle |-> dir_angle(e.win_pos[1] - center_x,
                                      e.win_pos[2] - center_y)]
            ELSE [kind |-> "highlight", win_pos |-> e.win_pos,
                  indicator_r |-> Max(Max(e.win_size[1], e.win_size[2]) + 20, 30)]
    ELSE IF HasRenderPointer(sel) THEN [kind |-> "custom", win_pos |-> e.win_pos]
    ELSE [kind |-> "strokes", win_pos |-> e.win_pos,
          strokes |-> IF skip_top_bar THEN {0, 1, 2} ELSE {0, 1, 2, 3}]

\* ---------------------------------------------------------------------------
\* Actions
\* ---------------------------------------------------------------------------

\* the host sets core->selection
SetSelection ==
    /\ BeginFrame
    /\ \E s \in Objects \cup {NoSel} : s # selection /\ selection' = s
    /\ UNCHANGED <<obs, view, win_size, gyroscope_mode, alive, visible, cache,
                   ptr_visible, last_refresh>>

\* the host sets the observer's clock
SetTime ==
    /\ BeginFrame
    /\ \E u \in UtcValues : u # obs.utc /\ obs' = Observer(u)
    /\ UNCHANGED <<selection, view, win_size, gyroscope_mode, alive, visible,
                   cache, ptr_visible, last_refresh>>

\* the host turns the view or changes the projection
SetView ==
    /\ BeginFrame
    /\ \E v \in Views : v # view /\ view' = v
    /\ UNCHANGED <<selection, obs, win_size, gyroscope_mode, alive, visible,
                   cache, ptr_visible, last_refresh>>

\* the host sets core->gyroscope_mode
SetGyroscopeMode ==
    /\ BeginFrame
    /\ gyroscope_mode' = ~gyroscope_mode
    /\ UNCHANGED <<selection, obs, view, win_size, alive, visible, cache,
                   ptr_visible, last_refresh>>

\* variant: disabling tracking frees the samples
SetTrackVisible_frees ==
    /\ BeginFrame
    /\ visible' = ~visible
    /\ cache' = IF visible
                THEN [nb_points |-> 0, path_azalt |-> <<>>, hours |-> <<>>]
                ELSE cache
    /\ UNCHANGED <<selection, obs, view, win_size, gyroscope_mode, alive,
                   ptr_visible, last_refresh>>

\* the visible attribute of star_track is written
SetTrackVisible ==
    /\ BeginFrame
    /\ visible' = ~visible
    /\ UNCHANGED <<selection, obs, view, win_size, gyroscope_mode, alive,
                   cache, ptr_visible, last_refresh>>

\* the visible attribute of pointer is written
SetPointerVisible ==
    /\ BeginFrame
    /\ ptr_visible' = ~ptr_visible
    /\ UNCHANGED <<selection, obs, view, win_size, gyroscope_mode, alive,
                   visible, cache, last_refresh>>

\* the host renders the next frame without any change
NewFrame ==
    /\ st_ret # NotCalled
    /\ pt_ret # NotCalled
    /\ BeginFrame
    /\ UNCHANGED <<selection, obs, view, win_size, gyroscope_mode, alive,
                   visible, cache, ptr_visible, last_refresh>>

\* faulty variant: the selection is not tested
RenderSkipped_visible_only(vis, sel) == ~vis

\* the two early returns of star_track_render
RenderSkipped(vis, sel) == ~vis \/ sel = NoSel

\* some compute_azalt_at_time call of a refresh finds no ephemeris
SomeSampleFails(sel, o) ==
    \E i \in 0..(PATH_POINTS - 1) :
        ~EphemDefined(sel, o.tt + clock_hour(i) - current_hour(o))

\* star_track_render
StarTrackRender ==
    /\ alive
    /\ st_ret = NotCalled
    /\ st_ret' = <<0>>
    /\ IF RenderSkipped(visible, selection)
       THEN UNCHANGED <<cache, st_draw, sampler_log, last_refresh>>
       ELSE \E g \in (IF SomeSampleFails(selection, obs)
                      THEN GarbageChoices ELSE {"residue"}),
               gm \in (IF EphemDefined(selection, obs.tt)
                       THEN {ArbitraryDir} ELSE MarkerGarbage) :
              LET calls == SamplerCalls(selection, obs, g)
                  c     == update_path_cache(cache, calls)
              IN  /\ cache' = c
                  /\ sampler_log' = calls
                  /\ last_refresh' = <<selection, obs.utc>>
                  /\ st_draw' =
                       IF c.nb_points < 2 THEN NoDraw
                       ELSE [segs   |-> SegmentLoop(c, obs, view, win_size),
                             dots   |-> HourLoop(c, obs, view, win_size),
                             marker |-> CurrentMarker(selection, obs, view,
                                                      win_size, gm)]
    /\ UNCHANGED <<selection, obs, view, win_size, gyroscope_mode, alive,
                   visible, ptr_visible, pt_ret, pt_draw>>

\* pointer_render (render order 199, after star_track's 45)
PointerRender ==
    /\ alive
    /\ st_ret # NotCalled
    /\ pt_ret = NotCalled
    /\ pt_ret' = <<0>>
    /\ IF PointerSkipped(ptr_visible, selection)
       THEN pt_draw' = NoPointer
       ELSE \E e \in Ellipses(win_size), skip_top_bar \in BOOLEAN :
              pt_draw' = pointer_draw(selection, gyroscope_mode, win_size, e,
                                      skip_top_bar)
    /\ UNCHANGED <<selection, obs, view, win_size, gyroscope_mode, alive,
                   visible, cache, ptr_visible, st_ret, st_draw, sampler_log,
                   last_refresh>>

\* star_track_del: the two arrays are freed
StarTrackDel ==
    /\ alive
    /\ alive' = FALSE
    /\ cache' = [cache EXCEPT !.path_azalt = <<>>, !.hours = <<>>]
    /\ UNCHANGED <<selection, obs, view, win_size, gyroscope_mode, visible,
                   ptr_visible, st_ret, st_draw, sampler_log, last_refresh,
                   pt_ret, pt_draw>>

Next ==
    \/ SetSelection
    \/ SetTime
    \/ SetView
    \/ SetGyroscopeMode
    \/ SetTrackVisible
    \/ SetPointerVisible
    \/ NewFrame
    \/ StarTrackRender
    \/ PointerRender
    \/ StarTrackDel

Spec == Init /\ [][Next]_vars

\* ---------------------------------------------------------------------------
\* Properties
\* ---------------------------------------------------------------------------

Indices == 0..(PATH_POINTS - 1)

\* star_track_render has run in this frame and refreshed the cache
Refreshed == alive /\ st_ret = <<0>> /\ sampler_log # <<>>

SegsOf(d) == {d.segs[k] : k \in DOMAIN d.segs}
DotsOf(d) == {d.dots[k] : k \in DOMAIN d.dots}

\* C1 (anchor stability): once update_path_cache has run, whatever the
\* observer's time and whatever refreshes came before, the cache holds exactly
\* PATH_POINTS samples and hours[i] is i * 24 / PATH_POINTS hours.
AnchorStability ==
    (alive /\ last_refresh # <<>>) =>
        /\ cache.nb_points = PATH_POINTS
        /\ Len(cache.hours) = PATH_POINTS
        /\ Len(cache.path_azalt) = PATH_POINTS
        /\ \A i \in Indices :
              cache.hours[i + 1] * PATH_POINTS = i * HOURS_PER_DAY * UnitsPerHour

\* a refresh on the second day, at an instant off the sampling grid
AnchorStabilityWitness ==
    /\ Refreshed
    /\ last_refresh = <<"comet", UnitsPerDay + HalfTurn + SubTicks \div 2>>
    /\ cache.hours[PATH_POINTS] * PATH_POINTS =
           (PATH_POINTS - 1) * HOURS_PER_DAY * UnitsPerHour

\* C2: every screen position star_track_render draws comes from a projection
\* that succeeded in the same tick: both ends of a segment, the sample of an
\* hour dot or label, and the current position of the marker.
DrawnOnlyIfProjected ==
    (alive /\ st_ret = <<0>>) =>
        /\ \A s \in SegsOf(st_draw) :
              LET pr == SegProj(s.i, cache, obs, view, win_size)
              IN  /\ s.next = (s.i + 1) % PATH_POINTS
                  /\ pr.r1.ok /\ pr.r2.ok
                  /\ s.p1 = pr.r1.win /\ s.p2 = pr.r2.win
        /\ \A d \in DotsOf(st_draw) :
              /\ DotProj(d.i, cache, obs, view, win_size).ok
              /\ d.pos = DotProj(d.i, cache, obs, view, win_size).win
        /\ st_draw.marker.drawn => st_draw.marker.proj_ok

\* segments were drawn in a tick in which the second projection of some pair
\* failed after the first succeeded, and the marker was not projectable
DrawnOnlyIfProjectedWitness ==
    /\ Refreshed
    /\ st_draw.segs # <<>>
    /\ st_draw.dots # <<>>
    /\ \E i \in Indices :
          LET pr == SegProj(i, cache, obs, view, win_size)
          IN  pr.r1.ok /\ ~pr.r2.ok
    /\ \E i \in Indices :
          is_hour(cache.hours[i + 1]) /\ ~DotProj(i, cache, obs, view, win_size).ok

\* C3 (wraparound rejection): no segment is drawn between two adjacent samples
\* whose projected points are farther apart than half the viewport width;
\* every drawn segment has squared length at most (win_size[0] / 2)^2.
WraparoundRejected ==
    (alive /\ st_ret = <<0>>) =>
        /\ \A s \in SegsOf(st_draw) :
              4 * Dist2(s.p1, s.p2) <= win_size[1] * win_size[1]
        /\ Refreshed =>
              \A i \in Indices :
                LET pr == SegProj(i, cache, obs, view, win_size)
                IN  (pr.r1.ok /\ pr.r2.ok /\
                     4 * Dist2(pr.r1.win, pr.r2.win) > win_size[1] * win_size[1])
                    => ~(\E s \in SegsOf(st_draw) : s.i = i)

\* a tick in which a pair with two successful projections was rejected as a
\* wraparound while other segments were drawn
WraparoundRejectedWitness ==
    /\ Refreshed
    /\ st_draw.segs # <<>>
    /\ \E i \in Indices :
          LET pr == SegProj(i, cache, obs, view, win_size)
          IN  pr.r1.ok /\ pr.r2.ok /\
              4 * Dist2(pr.r1.win, pr.r2.win) > win_size[1] * win_size[1]

\* C4: a sample whose ephemeris call failed during the refresh is excluded
\* from the path segments and from the hour dots and labels of the tick.
FailedSampleExcluded ==
    Refreshed =>
        \A i \in Indices :
            ~sampler_log[i + 1].ok =>
                /\ ~(\E s \in SegsOf(st_draw) : s.i = i \/ s.next = i)
                /\ ~(\E d \in DotsOf(st_draw) : d.i = i)

\* C5: with no selection or with the module's visible flag false, a render
\* tick of the tracker and of the pointer returns 0, draws nothing, queries
\* no ephemeris and leaves the path cache unchanged.
NoSelectionNoOp ==
    [][ /\ (st_ret = NotCalled /\ st_ret' # NotCalled /\
            (~visible \/ selection = NoSel))
           => /\ st_ret' = <<0>>
              /\ st_draw' = NoDraw
              /\ sampler_log' = <<>>
              /\ cache' = cache
        /\ (pt_ret = NotCalled /\ pt_ret' # NotCalled /\
            (~ptr_visible \/ selection = NoSel))
           => /\ pt_ret' = <<0>>
              /\ pt_draw' = NoPointer
              /\ sampler_log' = sampler_log
              /\ cache' = cache ]_vars

\* both modules have rendered with no selection while tracking is enabled and
\* the cache holds the samples of an earlier selection
NoSelectionNoOpWitness ==
    /\ alive
    /\ st_ret = <<0>> /\ pt_ret = <<0>>
    /\ selection = NoSel /\ visible /\ ptr_visible
    /\ cache.nb_points = PATH_POINTS
    /\ st_draw = NoDraw /\ pt_draw = NoPointer

\* C6 (cache lifecycle, as stated): the cache exists only while tracking is
\* active; whenever tracking is disabled the cache holds no samples
\* (nb_points = 0, arrays freed).
CacheOnlyWhileTracking ==
    (alive /\ ~visible) =>
        /\ cache.nb_points = 0
        /\ cache.path_azalt = <<>>
        /\ cache.hours = <<>>

\* C6 (amended): the cache is created by the first render tick that has
\* tracking enabled and a selection; from then on, until star_track_del, it
\* keeps its PATH_POINTS samples: disabling tracking or changing the selection
\* frees and changes nothing, and only a refreshing render tick writes it.
CacheKeptUntilDeleted ==
    [][ alive' =>
          /\ (cache.nb_points = PATH_POINTS) =>
                /\ cache'.nb_points = PATH_POINTS
                /\ Len(cache'.path_azalt) = PATH_POINTS
                /\ Len(cache'.hours) = PATH_POINTS
          /\ (visible' # visible \/ selection' # selection) => cache' = cache
          /\ (cache' # cache) =>
                /\ st_ret = NotCalled /\ st_ret' = <<0>>
                /\ visible /\ selection # NoSel ]_vars

\* tracking has been disabled and the selection cleared, and the samples of
\* the last refresh are still stored
CacheKeptUntilDeletedWitness ==
    /\ alive
    /\ ~visible
    /\ selection = NoSel
    /\ last_refresh # <<>>
    /\ cache.nb_points = PATH_POINTS
    /\ Len(cache.path_azalt) = PATH_POINTS

\* C7: after a render tick with tracking enabled and selection S at observer
\* time t, every cached sample is the result of a compute_azalt_at_time call
\* of this tick for S, the observer at t and the sample's anchor offset (the
\* ephemeris position for S at that instant whenever one exists), and the
\* segments and dots drawn are projections of these samples.
CacheEntirelyReplaced ==
    (alive /\ st_ret = <<0>> /\ visible /\ selection # NoSel) =>
        /\ Len(sampler_log) = PATH_POINTS
        /\ last_refresh = <<selection, obs.utc>>
        /\ \A i \in Indices :
              LET c == sampler_log[i + 1]
                  t == obs.tt + clock_hour(i) - (obs.utc % UnitsPerDay)
              IN  /\ c.obj = selection
                  /\ c.tt = t
                  /\ cache.path_azalt[i + 1] = <<c.az, c.alt>>
                  /\ EphemDefined(selection, t) =>
                        cache.path_azalt[i + 1] =
                            IcrfToObserved([obs EXCEPT !.tt = t],
                                           EphemDir(selection, t))
        /\ \A s \in SegsOf(st_draw) :
              /\ s.p1 = DotProj(s.i, cache, obs, view, win_size).win
              /\ s.p2 = DotProj(s.next, cache, obs, view, win_size).win
        /\ \A d \in DotsOf(st_draw) :
              d.above = (cache.path_azalt[d.i + 1][2] > 0)

\* a tick on the second day for the star, drawn from a cache that is not the
\* one a first-day refresh of the star or any refresh of the comet produces
CacheEntirelyReplacedWitness ==
    /\ Refreshed
    /\ selection = "star"
    /\ obs.utc >= UnitsPerDay
    /\ st_draw.segs # <<>>
    /\ cache.path_azalt[1] # IcrfToObserved(Observer(0), EphemDir("star", TtMinusUtc))
    /\ cache.path_azalt[1] = IcrfToObserved(Observer(UnitsPerDay),
                                            EphemDir("star", UnitsPerDay + TtMinusUtc))

\* C8 (idempotence of refresh): a refresh that follows a refresh for the same
\* selection and the same utc leaves hours[] and path_azalt[] as they were.
RefreshIdempotent ==
    [][ (st_ret = NotCalled /\ st_ret' = <<0>> /\ visible /\ selection # NoSel
         /\ last_refresh = <<selection, obs.utc>>)
        => /\ cache'.hours = cache.hours
           /\ cache'.path_azalt = cache.path_azalt ]_vars

\* C9: the offset passed to the sampler for index i is clockHour[i] minus the
\* current hour, the fractional part of utc (days) times 24; the sampler asks
\* the ephemeris for the observer's tt plus that offset.  With utc at half a
\* day and PATH_POINTS = 144, index 72 has clock hour 12 and offset 0.
OffsetFromAnchor ==
    Refreshed =>
        /\ \A i \in Indices :
              LET c    == sampler_log[i + 1]
                  frac == obs.utc - (obs.utc \div UnitsPerDay) * UnitsPerDay
              IN  /\ c.hours_offset * UnitsPerDay =
                         cache.hours[i + 1] * UnitsPerDay
                         - frac * HOURS_PER_DAY * UnitsPerHour
                  /\ c.tt = obs.tt + c.hours_offset
        /\ (2 * (obs.utc % UnitsPerDay) = UnitsPerDay /\ PATH_POINTS = 144) =>
              /\ cache.hours[72 + 1] = 12 * UnitsPerHour
              /\ sampler_log[72 + 1].hours_offset = 0

\* a refresh with the observer's utc at half a day
OffsetFromAnchorWitness ==
    /\ Refreshed
    /\ 2 * (obs.utc % UnitsPerDay) = UnitsPerDay
    /\ sampler_log[72 + 1].hours_offset = 0
    /\ sampler_log[1].hours_offset < 0
    /\ sampler_log[PATH_POINTS].hours_offset > 0

\* C10: is_on_screen is the closed box margin <= x <= w - margin and
\* margin <= y <= h - margin: (margin, margin) and (w - margin, h - margin)
\* are on screen, any point with x = margin - 1 is off screen.
ClosedBoxMargins == {0, 1, margin}
ClosedBoxCoords(len, m) == {-1, m - 1, m, m + 1, len - m - 1, len - m, len - m + 1}

IsOnScreenClosedBox ==
    /\ (pt_draw.kind \in {"arrow", "highlight"}) =>
          LET x == pt_draw.win_pos[1]
              y == pt_draw.win_pos[2]
          IN  (pt_draw.kind = "highlight") <=>
                  ~(x < margin \/ x > win_size[1] - margin \/
                    y < margin \/ y > win_size[2] - margin)
    /\ \A m \in ClosedBoxMargins :
          /\ is_on_screen(m, m, win_size[1], win_size[2], m)
          /\ is_on_screen(win_size[1] - m, win_size[2] - m,
                          win_size[1], win_size[2], m)
          /\ \A x \in ClosedBoxCoords(win_size[1], m),
                y \in ClosedBoxCoords(win_size[2], m) :
                /\ is_on_screen(x, y, win_size[1], win_size[2], m) <=>
                      ~(x < m \/ x > win_size[1] - m \/
                        y < m \/ y > win_size[2] - m)
                /\ ~is_on_screen(m - 1, y, win_size[1], win_size[2], m)

\* the pointer classified the boundary point (margin, margin) as on screen
IsOnScreenClosedBoxWitness ==
    /\ pt_ret = <<0>>
    /\ gyroscope_mode
    /\ pt_draw.kind = "highlight"
    /\ pt_draw.win_pos = <<margin, margin>>

\* the distance of a clock hour from the nearest integer hour, in clock units
HourDistance(hour) ==
    LET f == hour % UnitsPerHour
    IN  IF 2 * f <= UnitsPerHour THEN f ELSE UnitsPerHour - f

\* the integer hour nearest to a clock hour, mod 24 (halves go up)
NearestHour(hour) ==
    LET whole == hour \div UnitsPerHour
        f     == hour % UnitsPerHour
    IN  (IF 2 * f >= UnitsPerHour THEN whole + 1 ELSE whole) % HOURS_PER_DAY

LabelsOf(d) == UNION {x.labels : x \in DotsOf(d)}

\* C11 (hour labels): in one render tick a label is drawn only for a sample
\* whose clock hour is within 6% of the sampling interval of an integer hour,
\* its value is that hour rounded to the nearest integer mod 24, and it is
\* drawn only when that value is even; the values lie in {0, 2, ..., 22} and
\* no value is labelled by more than one sample.
HourLabelsEven ==
    (alive /\ st_ret = <<0>>) =>
        /\ \A k \in DOMAIN st_draw.dots :
              LET d    == st_draw.dots[k]
                  hour == cache.hours[d.i + 1]
              IN  /\ d.labels # {} =>
                        /\ 100 * HourDistance(hour) * PATH_POINTS
                              <= 6 * HOURS_PER_DAY * UnitsPerHour
                        /\ d.labels = {NearestHour(hour)}
                        /\ NearestHour(hour) % 2 = 0
                  /\ NearestHour(hour) % 2 = 1 => d.labels = {}
        /\ LabelsOf(st_draw) \subseteq {2 * n : n \in 0..11}
        /\ \A k1, k2 \in DOMAIN st_draw.dots :
              (st_draw.dots[k1].labels \cap st_draw.dots[k2].labels # {})
                  => k1 = k2

\* a tick that drew several labelled dots and a dot of an odd hour without a
\* label
HourLabelsEvenWitness ==
    /\ Refreshed
    /\ Cardinality(LabelsOf(st_draw)) >= 3
    /\ \E d \in DotsOf(st_draw) :
          d.labels = {} /\ NearestHour(cache.hours[d.i + 1]) % 2 = 1
    /\ \E d \in DotsOf(st_draw) : d.labels = {0}

\* C12 (direction angle): in gyroscope mode with the selection off screen, an
\* object straight above the screen centre gets the angle 0 (pointing up); the
\* angle is measured clockwise from up (right of the centre is a positive
\* angle, above the centre an angle of less than a quarter turn either way)
\* and lies in (-pi, pi].
DirectionAngleFromUp ==
    (alive /\ pt_ret = <<0>> /\ pt_draw.kind = "arrow") =>
        LET dx == pt_draw.win_pos[1] - win_size[1] \div 2
            up == win_size[2] \div 2 - pt_draw.win_pos[2]
            a  == pt_draw.angle
        IN  /\ (dx = 0 /\ up > 0) => a = [lo |-> 0, hi |-> 0]
            /\ a.lo >= -4 /\ a.hi <= 4 /\ a.lo <= a.hi /\ a.hi <= a.lo + 1
            /\ a # [lo |-> -4, hi |-> -4]
            /\ (dx > 0) <=> (a.hi > 0 /\ a.lo < 4)
            /\ (dx < 0) <=> (a.lo < 0)
            /\ (up > 0) <=> (a.hi > -2 /\ a.lo < 2)
            /\ (up < 0) <=> (a.lo < -2 \/ a.hi > 2)
            /\ (dx = 0 /\ up < 0) => a = [lo |-> 4, hi |-> 4]
            /\ (dx > 0 /\ up = dx) => a = [lo |-> 1, hi |-> 1]

\* the selection is straight above the centre, beyond the window's edge, and
\* the arrow points up
DirectionAngleFromUpWitness ==
    /\ alive /\ pt_ret = <<0>>
    /\ gyroscope_mode
    /\ pt_draw.kind = "arrow"
    /\ pt_draw.win_pos = <<win_size[1] \div 2, -100>>
    /\ pt_draw.angle = [lo |-> 0, hi |-> 0]

\* C13: in gyroscope mode, with the pointer visible and a selection present,
\* a render tick draws the direction arrow at the screen centre if and only if
\* the selection's screen position is off screen by is_on_screen with margin
\* 50, and otherwise the golden highlight at that position; it never draws the
\* four strokes nor calls the selection's render_pointer.  Outside gyroscope
\* mode the arrow is never drawn.
GyroscopeArrowOrHighlight ==
    (alive /\ pt_ret = <<0>> /\ ptr_visible /\ selection # NoSel) =>
        LET x   == pt_draw.win_pos[1]
            y   == pt_draw.win_pos[2]
            off == x < 50 \/ x > win_size[1] - 50 \/
                   y < 50 \/ y > win_size[2] - 50
        IN  /\ gyroscope_mode =>
                /\ pt_draw.kind \in {"arrow", "highlight"}
                /\ (pt_draw.kind = "arrow") <=> off
                /\ (pt_draw.kind = "arrow") =>
                      2 * pt_draw.center[1] = win_size[1] /\
                      2 * pt_draw.center[2] = win_size[2]
            /\ ~gyroscope_mode =>
                /\ pt_draw.kind \in {"custom", "strokes"}
                /\ (pt_draw.kind = "custom") <=> HasRenderPointer(selection)

\* gyroscope mode, a selection that has a custom render_pointer, on screen:
\* the highlight is drawn, not the custom pointer
GyroscopeArrowOrHighlightWitness ==
    /\ alive /\ pt_ret = <<0>> /\ ptr_visible
    /\ gyroscope_mode
    /\ HasRenderPointer(selection)
    /\ pt_draw.kind = "highlight"
    /\ pt_draw.win_pos = <<win_size[1] - margin, win_size[2] - margin>>

====
